---- MODULE Spec2Model ----
(***************************************************************************)
(* Model of aoc-statistics.py: the class RandomList (a random integer      *)
(* sample kept as a raw list and as a value -> count dict, with two fuel   *)
(* cost functions, a brute-force minimum, and the statistics median() and  *)
(* mean()), and the __main__ driver that runs ten randomised tests.        *)
(*                                                                         *)
(* Numbers.  Python computes the median of an even-sized sample as a       *)
(* float with fractional part .5, and the costs at such a target are       *)
(* multiples of 1/2.  Every quantity that can be a half-integer is kept    *)
(* here as twice its value, in a definition whose name ends in _x2.  All   *)
(* floats the program handles are small multiples of 1/2 or quotients      *)
(* whose distance to the next rounding boundary is at least 1/(2n), so     *)
(* double precision is exact or rounds as the exact rational does.         *)
(*                                                                         *)
(* The dict _compressed_items is the sequence of its <<key, count>>        *)
(* entries in insertion order, which is the order Python iterates it in.   *)
(***************************************************************************)
EXTENDS Integers, Sequences, FiniteSets, TLC

VARIABLES
    pc,                 \* position of the program
    items_c,            \* argument items_c of __init__
    i,                  \* loop variable of __init__: items drawn so far
    lower_bound,        \* self.lower_bound
    upper_bound,        \* self.upper_bound
    _items,             \* self._items
    _compressed_items,  \* self._compressed_items, entries in insertion order
    call,               \* the last method call made on the sample and its outcome
    tests_run,          \* __main__: iterations of the test loop begun
    tests_done,         \* __main__: iterations of the test loop completed
    passed,             \* __main__: the flag passed
    checked_x2,         \* __main__: <<left, right>> operands of the last assert
                        \* of the current test iteration, doubled
    out                 \* __main__: messages printed by the current test iteration

vars == <<pc, items_c, i, lower_bound, upper_bound, _items, _compressed_items,
          call, tests_run, tests_done, passed, checked_x2, out>>

sampleVars == <<items_c, i, lower_bound, upper_bound, _items, _compressed_items>>
driverVars == <<tests_run, tests_done, passed, checked_x2, out>>

---------------------------------------------------------------------------
(* Bounds of the model *)

\* largest items_c a caller of RandomList passes
MaxCount == 4
\* bounds lo, hi a caller passes range over (0 - 1) .. MaxBound
MaxBound == 2
\* the driver's sample size ranges over 1 .. MaxSize (1 .. 100 in the program)
MaxSize == 2
\* the driver's upper bound ranges over MinUpper .. MinUpper + UpperSpread
\* (10 .. 1000 in the program)
UpperSpread == 0

(* Program constants *)

\* range(10): the number of test iterations
NumTests == 10
\* RandomList(size, 0, ...): the driver's lower bound
DriverLower == 0
\* random.randint(10, 1000): the least upper bound the driver draws
MinUpper == 10

BoundValues == (0 - 1) .. MaxBound
TargetValues == (0 - 2) .. (MaxBound + 1)
Funcs == {"linear_fuel_burn", "arithmetic_progression_burn"}

---------------------------------------------------------------------------
(* Python built-ins and library functions the program uses *)

\* abs()
Abs(x) == IF x < 0 THEN 0 - x ELSE x

\* a range() that includes its stop value
Range_inclusive(a, b) == [k \in 1 .. (IF b >= a THEN b - a + 1 ELSE 0) |-> a + k - 1]

\* range(a, b) as the sequence a, a+1, ..., b-1 (empty when a >= b)
Range(a, b) == [k \in 1 .. (IF b > a THEN b - a ELSE 0) |-> a + k - 1]

\* a randint() that accepts its bounds in either order
randint_either_order(a, b) == IF a <= b THEN a .. b ELSE b .. a

\* random.randint(a, b): the set of values it can return; it raises
\* ValueError when that set is empty
randint(a, b) == a .. b

\* sum of the first n elements of a list of integers
RECURSIVE SeqSumTo(_, _)
SeqSumTo(s, n) == IF n = 0 THEN 0 ELSE SeqSumTo(s, n - 1) + s[n]

\* sum of a list of integers
SeqSum(s) == SeqSumTo(s, Len(s))

\* insert x into an ascending list, before the first element >= x
Insert(x, s) ==
    LET c == Cardinality({j \in 1 .. Len(s) : s[j] < x})
    IN  [j \in 1 .. Len(s) + 1 |->
            IF j <= c THEN s[j] ELSE IF j = c + 1 THEN x ELSE s[j - 1]]

\* the first n elements of s in ascending order (the sorted prefix is
\* bound once, as a value)
RECURSIVE SortedTo(_, _)
SortedTo(s, n) ==
    IF n = 0 THEN <<>>
    ELSE CHOOSE r \in {Insert(s[n], t) : t \in {SortedTo(s, n - 1)}} : TRUE

\* sorted()
Sorted(s) == SortedTo(s, Len(s))

\* round(num / den) for den > 0: nearest integer, ties to the even one
round(num, den) ==
    LET q == num \div den
        r == num % den
    IN  IF 2 * r < den THEN q
        ELSE IF 2 * r > den THEN q + 1
        ELSE IF q % 2 = 0 THEN q ELSE q + 1

\* statistics.median(data), doubled; data is not empty
statistics_median_x2(data) ==
    LET n == Len(data)
    IN  CHOOSE m \in {IF n % 2 = 1 THEN 2 * s[(n \div 2) + 1]
                      ELSE s[n \div 2] + s[(n \div 2) + 1] :
                            s \in {Sorted(data)}} : TRUE

\* min(pairs, key=itemgetter(0)): the first pair whose item 0 is least;
\* pairs is not empty.  py_min_from(pairs, k) is that pair among
\* pairs[k], ..., pairs[Len(pairs)]: the minimum of the rest is bound once,
\* as a value, and compared with pairs[k], which wins a tie because it
\* comes first.
RECURSIVE py_min_from(_, _)
py_min_from(pairs, k) ==
    IF k >= Len(pairs) THEN pairs[k]
    ELSE CHOOSE m \in {IF rest[1] < pairs[k][1] THEN rest ELSE pairs[k] :
                            rest \in {py_min_from(pairs, k + 1)}} : TRUE

py_min(pairs) == py_min_from(pairs, 1)

---------------------------------------------------------------------------
(* The dict _compressed_items *)

\* item in self._compressed_items
HasKey(d, key) == \E k \in 1 .. Len(d) : d[k][1] = key

\* a dict update that stores 1 for a key already present
DictCount_reset(d, item) ==
    IF HasKey(d, item)
    THEN [k \in 1 .. Len(d) |-> IF d[k][1] = item THEN <<d[k][1], 1>> ELSE d[k]]
    ELSE Append(d, <<item, 1>>)

\* self._compressed_items[item] += 1, or = 1 for a new key
DictCount(d, item) ==
    IF HasKey(d, item)
    THEN [k \in 1 .. Len(d) |->
            IF d[k][1] = item THEN <<d[k][1], d[k][2] + 1>> ELSE d[k]]
    ELSE Append(d, <<item, 1>>)

---------------------------------------------------------------------------
(* Methods of RandomList *)

\* a linear term that forgets the multiplicity of the value
linear_term_unweighted(entry, target) == Abs(entry[1] - target)

\* abs(pos - target) * count for the entry (pos, count)
linear_term(entry, target) == Abs(entry[1] - target) * entry[2]

\* sum(abs(pos - target) * count ...) over the first n entries of a dict,
\* for an integer target
RECURSIVE linear_sum_to(_, _, _)
linear_sum_to(d, n, target) ==
    IF n = 0 THEN 0
    ELSE linear_sum_to(d, n - 1, target) + linear_term(d[n], target)

\* sum(abs(pos - target) * count ...) over the entries of a dict
linear_sum(d, target) == linear_sum_to(d, Len(d), target)

\* linear_fuel_burn(target), integer target
linear_fuel_burn(target) == linear_sum(_compressed_items, target)

\* the same sum, doubled, for a target given doubled (a target x.5)
RECURSIVE linear_sum_x2_to(_, _, _)
linear_sum_x2_to(d, n, target_x2) ==
    IF n = 0 THEN 0
    ELSE linear_sum_x2_to(d, n - 1, target_x2)
         + Abs(2 * d[n][1] - target_x2) * d[n][2]

\* linear_fuel_burn(target), doubled, for a target given doubled
linear_fuel_burn_x2(target_x2) ==
    linear_sum_x2_to(_compressed_items, Len(_compressed_items), target_x2)

\* a term that charges |d| (|d| + 1) / 2 for d = pos - target
ap_term_symmetric(pos, target) ==
    (Abs(pos - target) * (Abs(pos - target) + 1)) \div 2

\* abs((pos - target) * (pos - target - 1) / 2): the product of two
\* consecutive integers is even, so the float quotient is that integer
ap_term(pos, target) == Abs(((pos - target) * (pos - target - 1)) \div 2)

\* sum(abs(...) * count ...) over the first n entries of a dict
RECURSIVE ap_sum_to(_, _, _)
ap_sum_to(d, n, target) ==
    IF n = 0 THEN 0
    ELSE ap_sum_to(d, n - 1, target) + ap_term(d[n][1], target) * d[n][2]

\* arithmetic_progression_burn(target), integer target
arithmetic_progression_burn(target) ==
    ap_sum_to(_compressed_items, Len(_compressed_items), target)

\* func(j) for the bound method func
apply(func, j) ==
    IF func = "linear_fuel_burn" THEN linear_fuel_burn(j)
    ELSE arithmetic_progression_burn(j)

\* [(func(j), j) for j in range(self.lower_bound, self.upper_bound)]
burn_list(func) ==
    LET R == Range(lower_bound, upper_bound)
    IN  [k \in 1 .. Len(R) |-> <<apply(func, R[k]), R[k]>>]

\* minimum_burn(func) raises ValueError: min() of an empty list
minimum_burn_raises(func) == burn_list(func) = <<>>

\* minimum_burn(func), when it returns
minimum_burn(func) ==
    CHOOSE min_burn \in {py_min(pairs)[1] : pairs \in {burn_list(func)}} : TRUE

\* median() and mean() raise StatisticsError on an empty sample
statistics_raises == _items = <<>>

\* median(), doubled
median_x2 == statistics_median_x2(_items)

\* a mean() that leaves out the shift by one half
mean_unshifted == round(SeqSum(_items), Len(_items))

\* mean(): round(mean(self._items) - 1 / 2)
mean == round(2 * SeqSum(_items) - Len(_items), 2 * Len(_items))

---------------------------------------------------------------------------
(* RandomList.__init__ *)

NoCall == [op |-> "", func |-> "", target |-> 0, ret |-> 0, raised |-> "",
           evaluated |-> {}]

\* one iteration of  for i in range(items_c)
ConstructStep ==
    /\ pc = "init_loop"
    /\ i < items_c
    /\ IF randint(lower_bound, upper_bound) = {}
       THEN /\ pc' = "ValueError"
            /\ UNCHANGED <<i, _items, _compressed_items>>
       ELSE \E item \in randint(lower_bound, upper_bound) :
                /\ _items' = Append(_items, item)
                /\ _compressed_items' = DictCount(_compressed_items, item)
                /\ i' = i + 1
                /\ pc' = pc
    /\ UNCHANGED <<items_c, lower_bound, upper_bound, call, driverVars>>

\* range(items_c) is exhausted: __init__ returns
ConstructReturn ==
    /\ pc = "init_loop"
    /\ i >= items_c
    /\ pc' = "constructed"
    /\ UNCHANGED <<sampleVars, call, driverVars>>

---------------------------------------------------------------------------
(* A caller of the class: constructs one sample and calls its methods *)

Init ==
    /\ pc = "init_loop"
    /\ items_c \in 0 .. MaxCount
    /\ lower_bound \in BoundValues
    /\ upper_bound \in BoundValues
    /\ i = 0
    /\ _items = <<>>
    /\ _compressed_items = <<>>
    /\ call = NoCall
    /\ tests_run = 0
    /\ tests_done = 0
    /\ passed = TRUE
    /\ checked_x2 = <<0, 0>>
    /\ out = <<>>

Call_linear_fuel_burn ==
    /\ pc = "constructed"
    /\ \E t \in TargetValues :
        call' = [NoCall EXCEPT !.op = "linear_fuel_burn", !.target = t,
                               !.ret = linear_fuel_burn(t)]
    /\ UNCHANGED <<pc, sampleVars, driverVars>>

Call_arithmetic_progression_burn ==
    /\ pc = "constructed"
    /\ \E t \in TargetValues :
        call' = [NoCall EXCEPT !.op = "arithmetic_progression_burn", !.target = t,
                               !.ret = arithmetic_progression_burn(t)]
    /\ UNCHANGED <<pc, sampleVars, driverVars>>

Call_minimum_burn ==
    /\ pc = "constructed"
    /\ \E func \in Funcs :
        call' = IF minimum_burn_raises(func)
                THEN [NoCall EXCEPT !.op = "minimum_burn", !.func = func,
                                    !.raised = "ValueError"]
                ELSE [NoCall EXCEPT !.op = "minimum_burn", !.func = func,
                                    !.ret = minimum_burn(func),
                                    !.evaluated =
                                        {burn_list(func)[k][2] :
                                            k \in 1 .. Len(burn_list(func))}]
    /\ UNCHANGED <<pc, sampleVars, driverVars>>

Call_median ==
    /\ pc = "constructed"
    /\ call' = IF statistics_raises
               THEN [NoCall EXCEPT !.op = "median", !.raised = "StatisticsError"]
               ELSE [NoCall EXCEPT !.op = "median", !.ret = median_x2]
    /\ UNCHANGED <<pc, sampleVars, driverVars>>

Call_mean ==
    /\ pc = "constructed"
    /\ call' = IF statistics_raises
               THEN [NoCall EXCEPT !.op = "mean", !.raised = "StatisticsError"]
               ELSE [NoCall EXCEPT !.op = "mean", !.ret = mean]
    /\ UNCHANGED <<pc, sampleVars, driverVars>>

Next ==
    \/ ConstructStep
    \/ ConstructReturn
    \/ Call_linear_fuel_burn
    \/ Call_arithmetic_progression_burn
    \/ Call_minimum_burn
    \/ Call_median
    \/ Call_mean

Spec == Init /\ [][Next]_vars

---------------------------------------------------------------------------
(* The driver: if __name__ == "__main__" *)

Msg(kind, stat, yields_x2, optimum_x2) ==
    [kind |-> kind, stat |-> stat, yields_x2 |-> yields_x2, optimum_x2 |-> optimum_x2]

DriverInit ==
    /\ pc = "loop"
    /\ items_c = 0
    /\ lower_bound = 0
    /\ upper_bound = 0
    /\ i = 0
    /\ _items = <<>>
    /\ _compressed_items = <<>>
    /\ call = NoCall
    /\ tests_run = 0
    /\ tests_done = 0
    /\ passed = TRUE
    /\ checked_x2 = <<0, 0>>
    /\ out = <<>>

\* for i in range(10): size = randint(1, 100);
\* sample = RandomList(size, 0, randint(10, 1000)), up to the loop of __init__
StartTest ==
    /\ pc = "loop"
    /\ tests_run < NumTests
    /\ \E size \in randint(1, MaxSize) :
       \E hi \in randint(MinUpper, MinUpper + UpperSpread) :
            /\ items_c' = size
            /\ lower_bound' = DriverLower
            /\ upper_bound' = hi
    /\ i' = 0
    /\ _items' = <<>>
    /\ _compressed_items' = <<>>
    /\ tests_run' = tests_run + 1
    /\ checked_x2' = <<0, 0>>
    /\ out' = <<>>
    /\ pc' = "init_loop"
    /\ UNCHANGED <<call, tests_done, passed>>

\* passed = True; print(TEST ... List of size items ...)
BeginChecks ==
    /\ pc = "constructed"
    /\ passed' = TRUE
    /\ out' = <<Msg("TEST", "", 0, 0)>>
    /\ pc' = "check1"
    /\ UNCHANGED <<sampleVars, call, tests_run, tests_done, checked_x2>>

\* a first check whose AssertionError is not caught
Check1_uncaught ==
    /\ pc = "check1"
    /\ IF minimum_burn_raises("linear_fuel_burn") \/ statistics_raises
       THEN /\ pc' = "crashed"
            /\ UNCHANGED <<passed, checked_x2, out>>
       ELSE \E l \in {2 * minimum_burn("linear_fuel_burn")} :
            \E r \in {linear_fuel_burn_x2(median_x2)} :
                /\ checked_x2' = <<l, r>>
                /\ pc' = IF l = r THEN "check2" ELSE "crashed"
                /\ UNCHANGED <<passed, out>>
    /\ UNCHANGED <<sampleVars, call, tests_run, tests_done>>

\* a first check whose handler does not clear the flag passed
Check1_keeps_passed ==
    /\ pc = "check1"
    /\ IF minimum_burn_raises("linear_fuel_burn") \/ statistics_raises
       THEN /\ pc' = "crashed"
            /\ UNCHANGED <<passed, checked_x2, out>>
       ELSE \E l \in {2 * minimum_burn("linear_fuel_burn")} :
            \E r \in {linear_fuel_burn_x2(median_x2)} :
                /\ checked_x2' = <<l, r>>
                /\ out' = IF l = r THEN out
                          ELSE Append(out, Msg("FAILED", "Median", r, l))
                /\ pc' = "check2"
                /\ UNCHANGED passed
    /\ UNCHANGED <<sampleVars, call, tests_run, tests_done>>

\* try: assert minimum_burn(linear_fuel_burn) == linear_fuel_burn(median())
\* except AssertionError: print(FAILED ...); passed = False
\* An exception other than AssertionError is not caught and ends the program.
Check1 ==
    /\ pc = "check1"
    /\ IF minimum_burn_raises("linear_fuel_burn") \/ statistics_raises
       THEN /\ pc' = "crashed"
            /\ UNCHANGED <<passed, checked_x2, out>>
       ELSE \E l \in {2 * minimum_burn("linear_fuel_burn")} :
            \E r \in {linear_fuel_burn_x2(median_x2)} :
                /\ checked_x2' = <<l, r>>
                /\ IF l = r
                   THEN UNCHANGED <<passed, out>>
                   ELSE /\ out' = Append(out,
                                Msg("FAILED", "Median",
                                    linear_fuel_burn_x2(median_x2),
                                    2 * minimum_burn("linear_fuel_burn")))
                        /\ passed' = FALSE
                /\ pc' = "check2"
    /\ UNCHANGED <<sampleVars, call, tests_run, tests_done>>

\* try: assert minimum_burn(arithmetic_progression_burn)
\*                 == arithmetic_progression_burn(mean())
\* except AssertionError: print(FAILED ...); passed = False
Check2 ==
    /\ pc = "check2"
    /\ IF minimum_burn_raises("arithmetic_progression_burn") \/ statistics_raises
       THEN /\ pc' = "crashed"
            /\ UNCHANGED <<passed, checked_x2, out>>
       ELSE \E l \in {2 * minimum_burn("arithmetic_progression_burn")} :
            \E r \in {2 * arithmetic_progression_burn(mean)} :
                /\ checked_x2' = <<l, r>>
                /\ IF l = r
                   THEN UNCHANGED <<passed, out>>
                   ELSE /\ out' = Append(out,
                                Msg("FAILED", "Mean",
                                    2 * arithmetic_progression_burn(mean),
                                    2 * minimum_burn("arithmetic_progression_burn")))
                        /\ passed' = FALSE
                /\ pc' = "report"
    /\ UNCHANGED <<sampleVars, call, tests_run, tests_done>>

\* if passed: print("PASSED"); the iteration ends
Report ==
    /\ pc = "report"
    /\ out' = IF passed THEN Append(out, Msg("PASSED", "", 0, 0)) ELSE out
    /\ tests_done' = tests_done + 1
    /\ pc' = "loop"
    /\ UNCHANGED <<sampleVars, call, tests_run, passed, checked_x2>>

\* range(10) is exhausted: the program ends
Exit ==
    /\ pc = "loop"
    /\ tests_run >= NumTests
    /\ pc' = "done"
    /\ UNCHANGED <<sampleVars, call, driverVars>>

DriverNext ==
    \/ StartTest
    \/ ConstructStep
    \/ ConstructReturn
    \/ BeginChecks
    \/ Check1
    \/ Check2
    \/ Report
    \/ Exit

\* The program is sequential: it takes its next step as long as it has one.
DriverSpec == DriverInit /\ [][DriverNext]_vars /\ WF_vars(DriverNext)

---------------------------------------------------------------------------
(* Vocabulary of the properties *)

\* occurrences of the value v in the raw list
Occurrences(v) == Cardinality({k \in 1 .. Len(_items) : _items[k] = v})

\* sum of the counts of a dict
RECURSIVE CountSumTo(_, _)
CountSumTo(d, n) == IF n = 0 THEN 0 ELSE CountSumTo(d, n - 1) + d[n][2]
CountSum(d) == CountSumTo(d, Len(d))

\* 1 + 2 + ... + d, and 0 for d <= 0
RECURSIVE Tri(_)
Tri(d) == IF d <= 0 THEN 0 ELSE d + Tri(d - 1)

\* sum of |v - t| over the elements of a raw list
RECURSIVE RawLinearTo(_, _, _)
RawLinearTo(s, n, t) == IF n = 0 THEN 0 ELSE RawLinearTo(s, n - 1, t) + Abs(s[n] - t)
RawLinear(s, t) == RawLinearTo(s, Len(s), t)

\* sum over the raw list of the triangular cost of the distance |v - t|
RECURSIVE RawTriangularTo(_, _, _)
RawTriangularTo(s, n, t) ==
    IF n = 0 THEN 0 ELSE RawTriangularTo(s, n - 1, t) + Tri(Abs(s[n] - t))
RawTriangular(s, t) == RawTriangularTo(s, Len(s), t)

\* sum over the raw list of 1 + ... + (v - t - 1) for a value above the
\* target and of 1 + ... + (t - v) for a value below it
RECURSIVE RawLopsidedTo(_, _, _)
RawLopsidedTo(s, n, t) ==
    IF n = 0 THEN 0
    ELSE RawLopsidedTo(s, n - 1, t)
         + (IF s[n] >= t THEN Tri(s[n] - t - 1) ELSE Tri(t - s[n]))
RawLopsided(s, t) == RawLopsidedTo(s, Len(s), t)

\* the entries of a dict visited in the order p
Reordered(d, p) == [k \in 1 .. Len(d) |-> d[p[k]]]

\* the lower middle element a[(n-1) div 2] of the sorted sample
LowerMiddle == Sorted(_items)[((Len(_items) - 1) \div 2) + 1]

\* messages of the current iteration of the given kind about the given statistic
Messages(kind, stat) ==
    {k \in 1 .. Len(out) : out[k].kind = kind /\ out[k].stat = stat}

\* the cost equalities the two checks of the driver test
LinearHolds ==
    2 * minimum_burn("linear_fuel_burn") = linear_fuel_burn_x2(median_x2)
ArithmeticHolds ==
    minimum_burn("arithmetic_progression_burn") = arithmetic_progression_burn(mean)

\* a test iteration of the driver has just ended
IterationEnded == pc \in {"loop", "done"} /\ tests_done > 0

---------------------------------------------------------------------------
(* C1 *)

\* C1: for every non-empty sample, the cost at the median equals the value
\* minimum_burn(linear_fuel_burn) returns: after the driver's first check,
\* the two operands of its assert are equal.
C1_MedianIsBruteForceOptimum ==
    pc = "check2" => checked_x2[1] = checked_x2[2]

---------------------------------------------------------------------------
(* C2 *)

\* C2: for a non-empty sample with lower_bound < upper_bound, the value
\* minimum_burn(arithmetic_progression_burn) returns equals
\* arithmetic_progression_burn(round(mean - 1/2)), also when that statistic
\* is lower_bound - 1 or upper_bound.
C2_MeanIsBruteForceOptimum ==
    (/\ pc = "constructed"
     /\ call.op = "minimum_burn"
     /\ call.func = "arithmetic_progression_burn"
     /\ _items # <<>>
     /\ lower_bound < upper_bound)
    => /\ call.raised = ""
       /\ call.ret = arithmetic_progression_burn(mean)

\* the brute-force minimum was taken while the statistic lies below the scan range
C2_Witness ==
    /\ pc = "constructed"
    /\ call.op = "minimum_burn"
    /\ call.func = "arithmetic_progression_burn"
    /\ Len(_items) >= 2
    /\ lower_bound < upper_bound
    /\ mean = lower_bound - 1

---------------------------------------------------------------------------
(* C3 *)

\* C3: every run of the driver completes exactly NumTests iterations and
\* ends normally: no step raises past the driver, the first check always
\* hands over to the second, the second to the report, the report to the
\* loop, and the run reaches "done" with NumTests iterations completed.
C3_DriverCompletes ==
    /\ [](pc \notin {"crashed", "ValueError"})
    /\ [][pc = "check1" => pc' = "check2"]_vars
    /\ [][pc = "check2" => pc' = "report"]_vars
    /\ [][pc = "report" => (pc' = "loop" /\ tests_done' = tests_done + 1)]_vars
    /\ [](pc = "done" => (tests_run = NumTests /\ tests_done = NumTests))
    /\ <>(pc = "done")

\* the last iteration ended after its first check had failed, and the run is over
C3_Witness ==
    /\ pc = "done"
    /\ tests_done = NumTests
    /\ Messages("FAILED", "Median") # {}

---------------------------------------------------------------------------
(* C4 *)

\* C4 as stated: at the end of an iteration each check has produced one
\* message of its own, PASSED if its equality holds and FAILED otherwise.
C4_OneMessagePerCheck ==
    IterationEnded =>
        /\ Cardinality(Messages("PASSED", ""))
             = (IF LinearHolds THEN 1 ELSE 0) + (IF ArithmeticHolds THEN 1 ELSE 0)
        /\ Cardinality(Messages("FAILED", "Median")) = (IF LinearHolds THEN 0 ELSE 1)
        /\ Cardinality(Messages("FAILED", "Mean")) = (IF ArithmeticHolds THEN 0 ELSE 1)

\* C4 amended: at the end of an iteration, a check whose equality does not
\* hold has produced exactly one FAILED message naming its statistic, the
\* cost the statistic achieved and the brute-force optimum; a check whose
\* equality holds has produced no message of its own; and there is one
\* PASSED message for the whole iteration exactly when both equalities
\* hold, none otherwise.
C4_FailedPerCheckPassedPerIteration ==
    IterationEnded =>
        /\ Cardinality(Messages("FAILED", "Median")) = (IF LinearHolds THEN 0 ELSE 1)
        /\ Cardinality(Messages("FAILED", "Mean")) = (IF ArithmeticHolds THEN 0 ELSE 1)
        /\ Cardinality(Messages("PASSED", ""))
             = (IF LinearHolds /\ ArithmeticHolds THEN 1 ELSE 0)
        /\ \A k \in Messages("FAILED", "Median") :
              /\ out[k].yields_x2 = RawLinear([j \in 1 .. Len(_items) |-> 2 * _items[j]],
                                              median_x2)
              /\ out[k].optimum_x2 = 2 * minimum_burn("linear_fuel_burn")
        /\ \A k \in Messages("FAILED", "Mean") :
              /\ out[k].yields_x2 = 2 * arithmetic_progression_burn(mean)
              /\ out[k].optimum_x2 = 2 * minimum_burn("arithmetic_progression_burn")

\* an iteration ended whose first check failed and whose second check held
C4_Witness ==
    /\ IterationEnded
    /\ ~LinearHolds
    /\ ArithmeticHolds
    /\ Len(out) = 2

---------------------------------------------------------------------------
(* C5 *)

\* C5: during and after construction the counts of the dict sum to the
\* number of items stored so far (to items_c once construction has
\* finished), every key lies in [lower_bound, upper_bound], and the count of
\* each key is the number of occurrences of that value in the raw list.
C5_CompressedMatchesItems ==
    /\ Len(_items) = i
    /\ CountSum(_compressed_items) = Len(_items)
    /\ pc = "constructed" => CountSum(_compressed_items) = items_c
    /\ \A k \in 1 .. Len(_compressed_items) :
          /\ _compressed_items[k][1] \in lower_bound .. upper_bound
          /\ _compressed_items[k][2] = Occurrences(_compressed_items[k][1])
    /\ \A j, k \in 1 .. Len(_compressed_items) :
          _compressed_items[j][1] = _compressed_items[k][1] => j = k

\* a finished sample with a repeated value and a second key
C5_Witness ==
    /\ pc = "constructed"
    /\ items_c = 3
    /\ Len(_compressed_items) = 2

---------------------------------------------------------------------------
(* C6 *)

\* C6: minimum_burn(func) returns func(x) for some x of
\* lower_bound .. upper_bound - 1, no larger than func(y) for every y of that
\* range; upper_bound itself is not evaluated; on an empty range the call
\* fails.
C6_MinimumBurn ==
    call.op = "minimum_burn" =>
        IF lower_bound >= upper_bound
        THEN call.raised = "ValueError"
        ELSE /\ call.raised = ""
             /\ \E x \in lower_bound .. (upper_bound - 1) :
                    call.ret = apply(call.func, x)
             /\ \A y \in lower_bound .. (upper_bound - 1) :
                    call.ret <= apply(call.func, y)
             /\ call.evaluated = lower_bound .. (upper_bound - 1)
             /\ upper_bound \notin call.evaluated

\* a minimum was returned that the point upper_bound would have beaten
C6_Witness ==
    /\ call.op = "minimum_burn"
    /\ call.raised = ""
    /\ apply(call.func, upper_bound) < call.ret

---------------------------------------------------------------------------
(* C7 *)

\* C7 as stated: for every items_c >= 0 and every lower and upper bound the
\* construction does not fail and yields exactly items_c items.
C7_ConstructAlwaysSucceeds ==
    /\ pc # "ValueError"
    /\ pc = "constructed" => Len(_items) = items_c

\* C7 amended: for items_c >= 0 the construction succeeds and yields exactly
\* items_c items whenever lower bound <= upper bound or items_c = 0; with
\* items_c >= 1 and lower bound > upper bound it fails with the ValueError
\* of random.randint, having stored no item.
C7_ConstructSucceedsOnNonEmptyRange ==
    /\ pc = "ValueError" => (items_c >= 1 /\ lower_bound > upper_bound /\ _items = <<>>)
    /\ pc = "constructed" =>
          /\ Len(_items) = items_c
          /\ (items_c = 0 \/ lower_bound <= upper_bound)

\* a construction failed
C7_Witness ==
    /\ pc = "ValueError"
    /\ items_c >= 1
    /\ lower_bound > upper_bound

---------------------------------------------------------------------------
(* C8 *)

\* C8 as stated: arithmetic_progression_burn(t) charges every occurrence of
\* v the triangular cost 1 + ... + d of its distance d = |v - t|.
C8_SymmetricTriangularCost ==
    call.op = "arithmetic_progression_burn" =>
        call.ret = RawTriangular(_items, call.target)

\* C8 amended: arithmetic_progression_burn(t) charges every occurrence of v
\* the cost |d (d - 1) / 2| of the signed difference d = v - t: a value e
\* steps below the target costs 1 + ... + e, a value d >= 1 steps above it
\* costs 1 + ... + (d - 1), as much as a value d - 1 steps below.
C8_LopsidedTriangularCost ==
    call.op = "arithmetic_progression_burn" =>
        call.ret = RawLopsided(_items, call.target)

\* the cost was taken at a target with a value two steps above it and a
\* value below it
C8_Witness ==
    /\ call.op = "arithmetic_progression_burn"
    /\ \E j, k \in 1 .. Len(_items) :
          /\ _items[j] >= call.target + 2
          /\ _items[k] < call.target

---------------------------------------------------------------------------
(* C9 *)

\* C9: linear_fuel_burn(t) over the dict equals the sum of |v - t| over the
\* raw list, in whatever order the entries of the dict are visited.
C9_LinearOverDictIsLinearOverList ==
    call.op = "linear_fuel_burn" =>
        /\ call.ret = RawLinear(_items, call.target)
        /\ \A p \in Permutations(1 .. Len(_compressed_items)) :
              linear_sum(Reordered(_compressed_items, p), call.target) = call.ret

\* the cost was taken over a dict of several keys, one of them repeated
C9_Witness ==
    /\ call.op = "linear_fuel_burn"
    /\ call.ret > 0
    /\ Len(_compressed_items) >= 2
    /\ Len(_items) > Len(_compressed_items)

---------------------------------------------------------------------------
(* C10 *)

====
